---------------------------- MODULE Spec2Model ----------------------------
(***************************************************************************)
(* The two PS Vita doomgeneric backends: input event queues, frame blit,   *)
(* clock and start-up.                                                     *)
(*                                                                         *)
(*   src/doomgeneric_vita.c      ("v1"): key_queue/pressed_queue ring of   *)
(*       QUEUE_SIZE slots, add_key, DG_GetKey, the main loop that diffs    *)
(*       the controller sample against old_pad, DG_DrawFrame and           *)
(*       DG_GetTicksMs.                                                    *)
(*   src/src/doomgeneric_vita.c  ("v2"): key_queue ring of MAX_KEY_QUEUE   *)
(*       slots, add_key_event, get_key_event, DG_GetKey, which samples     *)
(*       buttons, sticks and touch before it polls, DG_DrawFrame and main  *)
(*       with its test for the WAD.                                        *)
(*                                                                         *)
(* A controller bitmask is the set of its set bits (every SCE_CTRL_* mask  *)
(* used is a single bit), so (buttons & btn) != 0 is  btn \in buttons.     *)
(* A C array a[N] is the sequence of its N elements: C's a[i] is a[i + 1]. *)
(***************************************************************************)
EXTENDS Integers, Sequences, FiniteSets, TLC

VARIABLES
    \* ---- src/doomgeneric_vita.c
    key_queue,      \* int key_queue[QUEUE_SIZE]
    pressed_queue,  \* int pressed_queue[QUEUE_SIZE]
    queue_head,     \* write cursor
    queue_tail,     \* read cursor
    old_pad,        \* old_pad.buttons
    pc,             \* position of the main thread
    ret,            \* value returned by the last DG_GetKey / get_key_event
    out_key,        \* the caller's *key
    out_pressed,    \* the caller's *pressed
    \* ---- statement-level producer / consumer (threaded port of v1)
    ppc, p_next_head, p_ev,   \* producer: position, local next_head, arguments
    cpc,                      \* consumer: position
    \* ---- src/src/doomgeneric_vita.c
    key_queue2,       \* key_event_t key_queue[MAX_KEY_QUEUE]
    key_queue_read,
    key_queue_write,
    prev_ctrl,        \* prev_ctrl.buttons
    prev_lx, prev_ly, prev_rx,
    prev_touch,
    current_weapon,
    \* ---- history (observation only; no action reads it to decide)
    op,          \* name of the last operation that ran
    calls,       \* add_key / add_key_event calls of the last sampling pass
    ncalls,      \* number of add_key calls made so far (call-level driver)
    accepted,    \* events enqueued while the queue was not full
    delivered,   \* events returned by successful polls
    sample,      \* the controller sample last read
    iter,        \* number of main-loop iterations / DG_GetKey calls started
    \* ---- frame buffer, texture and clock
    DG_ScreenBuffer,  \* uint32_t DG_ScreenBuffer[RESX * RESY], the engine's frame
    tex_data,         \* the pixels of frame_tex / doom_texture
    rtc,              \* what sceRtcGetCurrentTick reads now
    elapsed_us,       \* microseconds since DG_Init (observation only)
    ticks_ms          \* the DG_GetTicksMs calls made so far (observation only)

varsV1   == <<key_queue, pressed_queue, queue_head, queue_tail, old_pad>>
varsThr  == <<ppc, p_next_head, p_ev, cpc>>
varsV2   == <<key_queue2, key_queue_read, key_queue_write, prev_ctrl,
              prev_lx, prev_ly, prev_rx, prev_touch, current_weapon>>
varsOut  == <<ret, out_key, out_pressed>>
varsHist == <<op, calls, ncalls, accepted, delivered, sample, iter>>
varsDev  == <<DG_ScreenBuffer, tex_data, rtc, elapsed_us, ticks_ms>>
vars     == <<varsV1, varsThr, varsV2, varsOut, varsHist, varsDev, pc>>

(***************************************************************************)
(* Program constants.                                                      *)
(***************************************************************************)
QUEUE_SIZE == 64
MAX_KEY_QUEUE == 32

\* doomkeys.h values of the key codes the mapping tables name.
KEY_RIGHTARROW == 174
KEY_LEFTARROW == 172
KEY_UPARROW == 173
KEY_DOWNARROW == 175
KEY_ESCAPE == 27
KEY_ENTER == 13
KEY_TAB == 9
KEY_RCTRL == 157
KEY_RSHIFT == 182
KEY_USE == 162
KEY_FIRE == 163
KEY_STRAFE_L == 160
KEY_STRAFE_R == 161

(***************************************************************************)
(* Bounds of the model.                                                    *)
(***************************************************************************)
MaxCalls == 66     \* add_key calls of the call-level driver and of the producer
MaxIter == 3       \* main-loop iterations (v1)
MaxPolls == 3      \* DG_GetKey calls (v2)
MaxTouchPolls == 33   \* DG_GetKey calls of the touch-only run (v2)
MaxElapsedUs == 4000  \* microseconds the clock runs after DG_Init
MaxTicksCalls == 3    \* DG_GetTicksMs calls
FrameCount == 12      \* frames the engine renders
\* The frame is DOOMGENERIC_RESX by DOOMGENERIC_RESY pixels (doomgeneric.h);
\* the model draws a small frame.
DOOMGENERIC_RESX == 3
DOOMGENERIC_RESY == 2

\* Assignment of an int to an unsigned char.
ToUChar(x) == x % 256

Event(k, p) == [key |-> k, pressed |-> p]

RECURSIVE IsPrefixFrom(_, _, _)
IsPrefixFrom(s, t, i) ==
    IF i > Len(s) THEN TRUE
    ELSE s[i] = t[i] /\ IsPrefixFrom(s, t, i + 1)

IsPrefix(s, t) == Len(s) <= Len(t) /\ IsPrefixFrom(s, t, 1)

(***************************************************************************)
(* v1: the ring buffer.  A queue value is a record of the four statics.    *)
(***************************************************************************)
Q == [key_queue |-> key_queue, pressed_queue |-> pressed_queue,
      queue_head |-> queue_head, queue_tail |-> queue_tail]

IsFull(q) == (q.queue_head + 1) % QUEUE_SIZE = q.queue_tail

IsEmpty(q) == q.queue_tail = q.queue_head

\* Number of slots between the read and the write cursor.
Occupancy(q) == (q.queue_head - q.queue_tail) % QUEUE_SIZE

\* add_key without the overflow test: the slot is written and the cursor
\* advanced even when the queue is full.
add_key_overwrite(q, key, pressed) ==
    [q EXCEPT !.key_queue[q.queue_head + 1] = key,
              !.pressed_queue[q.queue_head + 1] = pressed,
              !.queue_head = (q.queue_head + 1) % QUEUE_SIZE]

\* add_key with the overflow test one slot early: it also refuses the event
\* that would fill the last usable slot.
add_key_earlyfull(q, key, pressed) ==
    LET next_head == (q.queue_head + 1) % QUEUE_SIZE
    IN  IF next_head # q.queue_tail /\ (next_head + 1) % QUEUE_SIZE # q.queue_tail
        THEN [q EXCEPT !.key_queue[q.queue_head + 1] = key,
                       !.pressed_queue[q.queue_head + 1] = pressed,
                       !.queue_head = next_head]
        ELSE q

\* static void add_key(int key, int pressed)
add_key(q, key, pressed) ==
    LET next_head == (q.queue_head + 1) % QUEUE_SIZE
    IN  IF next_head # q.queue_tail
        THEN [q EXCEPT !.key_queue[q.queue_head + 1] = key,
                       !.pressed_queue[q.queue_head + 1] = pressed,
                       !.queue_head = next_head]
        ELSE q

\* DG_GetKey taking a queue that holds one event for an empty one.
GetKeyResult_keeplast(q, okey, opressed) ==
    IF IsEmpty(q) \/ (q.queue_tail + 1) % QUEUE_SIZE = q.queue_head
    THEN [q |-> q, ret |-> 0, key |-> okey, pressed |-> opressed]
    ELSE [q       |-> [q EXCEPT !.queue_tail = (q.queue_tail + 1) % QUEUE_SIZE],
          ret     |-> 1,
          key     |-> ToUChar(q.key_queue[q.queue_tail + 1]),
          pressed |-> q.pressed_queue[q.queue_tail + 1]]

\* DG_GetKey that returns the slot at queue_tail without advancing queue_tail.
GetKeyResult_noadvance(q, okey, opressed) ==
    IF q.queue_tail = q.queue_head
    THEN [q |-> q, ret |-> 0, key |-> okey, pressed |-> opressed]
    ELSE [q |-> q,
          ret |-> 1,
          key |-> ToUChar(q.key_queue[q.queue_tail + 1]),
          pressed |-> q.pressed_queue[q.queue_tail + 1]]

\* int DG_GetKey(int* pressed, unsigned char* key): [q, ret, key, pressed]
GetKeyResult(q, okey, opressed) ==
    IF q.queue_tail = q.queue_head
    THEN [q |-> q, ret |-> 0, key |-> okey, pressed |-> opressed]
    ELSE [q |-> [q EXCEPT !.queue_tail = (q.queue_tail + 1) % QUEUE_SIZE],
          ret |-> 1,
          key |-> ToUChar(q.key_queue[q.queue_tail + 1]),
          pressed |-> q.pressed_queue[q.queue_tail + 1]]

SetQ(q) ==
    /\ key_queue' = q.key_queue
    /\ pressed_queue' = q.pressed_queue
    /\ queue_head' = q.queue_head
    /\ queue_tail' = q.queue_tail

\* The event the call-level driver passes on its n-th add_key call while the
\* queue has room: every unsigned char key code in turn, 64 presses then 64
\* releases, so that successive occupants of a slot differ in both fields.
DriverEvent(n) == Event(n % 256, 1 - ((n \div QUEUE_SIZE) % 2))

DriverKeys == {0, KEY_ESCAPE, KEY_UPARROW, 255}

\* A call of add_key(key, pressed) by the driver.
AddKeyCall(key, pressed) ==
    /\ pc = "calls"
    /\ ncalls < MaxCalls
    /\ SetQ(add_key(Q, key, pressed))
    /\ op' = "add_key"
    /\ ncalls' = ncalls + 1
    /\ calls' = <<Event(key, pressed)>>
    /\ accepted' = IF IsFull(Q) THEN accepted
                   ELSE Append(accepted, Event(key, pressed))
    /\ UNCHANGED <<varsDev, old_pad, pc, varsOut, varsThr, varsV2, delivered, sample, iter>>

\* While the queue has room the driver passes DriverEvent; on a full queue
\* it passes any event.
AddKey ==
    \/ /\ ~IsFull(Q)
       /\ AddKeyCall(DriverEvent(ncalls).key, DriverEvent(ncalls).pressed)
    \/ /\ IsFull(Q)
       /\ \E key \in DriverKeys, pressed \in {0, 1} : AddKeyCall(key, pressed)

\* A call of DG_GetKey(&out_pressed, &out_key) (v1).
DG_GetKey ==
    /\ pc \in {"calls", "tick"}
    /\ LET r == GetKeyResult(Q, out_key, out_pressed)
       IN  /\ SetQ(r.q)
           /\ ret' = r.ret
           /\ out_key' = r.key
           /\ out_pressed' = r.pressed
           /\ delivered' = IF r.ret = 1
                           THEN Append(delivered, Event(r.key, r.pressed))
                           ELSE delivered
    /\ op' = "DG_GetKey"
    /\ UNCHANGED <<varsDev, old_pad, pc, varsThr, varsV2, calls, ncalls, accepted, sample, iter>>

InitV1Vars ==
    /\ key_queue = [i \in 1..QUEUE_SIZE |-> 0]
    /\ pressed_queue = [i \in 1..QUEUE_SIZE |-> 0]
    /\ queue_head = 0
    /\ queue_tail = 0

InitThrVars ==
    /\ ppc = "idle"
    /\ p_next_head = 0
    /\ p_ev = Event(0, 0)
    /\ cpc = "idle"

InitV2Vars ==
    /\ key_queue2 = [i \in 1..MAX_KEY_QUEUE |-> Event(0, 0)]
    /\ key_queue_read = 0
    /\ key_queue_write = 0
    /\ prev_ctrl = {}
    /\ prev_lx = 0
    /\ prev_ly = 0
    /\ prev_rx = 0
    /\ prev_touch = 0
    /\ current_weapon = 0

InitOutHist ==
    /\ ret = 0
    /\ out_key = 0
    /\ out_pressed = 0
    /\ op = "init"
    /\ calls = <<>>
    /\ ncalls = 0
    /\ accepted = <<>>
    /\ delivered = <<>>
    /\ sample = {}
    /\ iter = 0

(***************************************************************************)
(* The frame buffer, the texture and the real-time clock.                  *)
(***************************************************************************)
\* A uint32_t is the pair of its 16-bit halves: its value is hi * 65536 + lo.
Word(hi, lo) == [hi |-> hi, lo |-> lo]

\* (w >> 16) & 0xFF
Shr16And255(w) == w.hi % 256

\* (w >> 8) & 0xFF
Shr8And255(w) == (w.lo \div 256) % 256

\* w & 0xFF
And255(w) == w.lo % 256

\* vita2d.h:  RGBA8(r, g, b, a) is
\*   (((a) & 0xFF) << 24) | (((b) & 0xFF) << 16) | (((g) & 0xFF) << 8) | ((r) & 0xFF)
RGBA8(r, g, b, a) ==
    Word((a % 256) * 256 + (b % 256), (g % 256) * 256 + (r % 256))

\* The conversion without the exchange of the red and blue channels.
ConvertPixel_noswap(c) == RGBA8(And255(c), Shr8And255(c), Shr16And255(c), 255)

\* DG_DrawFrame (v1), the body of the loop: the texture pixel of colour c.
ConvertPixel(c) == RGBA8(Shr16And255(c), Shr8And255(c), And255(c), 255)

\* The stride of the texture in pixels: vita2d rounds the width up to a
\* multiple of 8.
TexStride == ((DOOMGENERIC_RESX + 7) \div 8) * 8

\* DG_DrawFrame (v1):  for (i = 0; i < RESX * RESY; i++) tex_data[i] = ...
DrawFrame(src, tex) ==
    [j \in 1..Len(tex) |->
        IF j - 1 < DOOMGENERIC_RESX * DOOMGENERIC_RESY
        THEN ConvertPixel(src[j]) ELSE tex[j]]

\* DG_DrawFrame (v2):  tex_data[y * stride + x] = src[y * DOOM_SCREEN_W + x]
\* for y < DOOM_SCREEN_H, x < DOOM_SCREEN_W; a null texture or frame buffer
\* (the empty sequence) returns at once.
DrawFrame2(src, tex) ==
    IF tex = <<>> \/ src = <<>> THEN tex
    ELSE [j \in 1..Len(tex) |->
            LET y == (j - 1) \div TexStride
                x == (j - 1) % TexStride
            IN  IF y < DOOMGENERIC_RESY /\ x < DOOMGENERIC_RESX
                THEN src[y * DOOMGENERIC_RESX + x + 1] ELSE tex[j]]

\* Colours the engine writes, 0x00RRGGBB: black, red, green, blue, 0x123456
\* and white, and two words whose top byte is not zero.
Colours == << Word(0, 0), Word(255, 0), Word(0, 65280), Word(0, 255),
              Word(18, 13398), Word(255, 65535),
              Word(65451, 52719), Word(32769, 515) >>

\* The k-th frame the engine renders.
Frame(k) ==
    [i \in 1..(DOOMGENERIC_RESX * DOOMGENERIC_RESY) |->
        Colours[((i * ((k % Len(Colours)) + 1) + k + (k \div Len(Colours)))
                 % Len(Colours)) + 1]]

Frames == {Frame(k) : k \in 0..(FrameCount - 1)}

\* What the memory of a texture holds when it is created.
NewTextures ==
    {[j \in 1..(TexStride * DOOMGENERIC_RESY) |-> w] :
        w \in {Word(0, 0), Word(43981, 4660)}}

\* SceRtcTick.tick, a uint64_t count of microseconds since 0001-01-01, held
\* as its digits:  tick = (wraps * 2^32 + ms) * 1000 + us,  0 <= us < 1000,
\* with ms a uint32_t.
Rtc(wraps, ms, us) == [wraps |-> wraps, ms |-> ms, us |-> us]

\* tick + d for d microseconds.
RtcAdd(t, d) ==
    LET us == t.us + d
        lo == t.ms.lo + (us \div 1000)
        hi == t.ms.hi + (lo \div 65536)
    IN  Rtc(t.wraps + (hi \div 65536), Word(hi % 65536, lo % 65536), us % 1000)

\* tick.tick / 1000
Div1000(t) == [wraps |-> t.wraps, ms |-> t.ms]

\* (uint32_t) of a quotient wraps * 2^32 + ms
ToUInt32(x) == x.ms

\* return (uint32_t)(tick.tick / 1000);
GetTicksMsResult(t) == ToUInt32(Div1000(t))

\* The value of the clock when DG_Init runs: 2026-11-05 16:00, and the last
\* two milliseconds before the low 32 bits of the millisecond count wrap.
RtcStarts == { Rtc(14884, Word(48797, 6144), 0),
               Rtc(14884, Word(65535, 65534), 500) }

\* Microseconds the clock advances between two observations.
ClockSteps == {250, 1000}

InitDevVars ==
    /\ DG_ScreenBuffer = Frame(0)
    /\ tex_data \in {[j \in 1..(TexStride * DOOMGENERIC_RESY) |-> Word(0, 0)]}
    /\ rtc = Rtc(14884, Word(48797, 6144), 0)
    /\ elapsed_us = 0
    /\ ticks_ms = <<>>

(***************************************************************************)
(* Call-level specification of v1: add_key and DG_GetKey called in any     *)
(* order.                                                                  *)
(***************************************************************************)
InitCalls ==
    /\ InitV1Vars /\ InitThrVars /\ InitV2Vars /\ InitOutHist /\ InitDevVars
    /\ old_pad = {}
    /\ pc = "calls"

NextCalls == AddKey \/ DG_GetKey

SpecCalls == InitCalls /\ [][NextCalls]_vars

(***************************************************************************)
(* v1: the main loop.                                                      *)
(***************************************************************************)
\* static const struct ButtonMap bmap[]
bmap == <<
    [vita_btn |-> "SCE_CTRL_UP",       doom_key |-> KEY_UPARROW],
    [vita_btn |-> "SCE_CTRL_DOWN",     doom_key |-> KEY_DOWNARROW],
    [vita_btn |-> "SCE_CTRL_LEFT",     doom_key |-> KEY_LEFTARROW],
    [vita_btn |-> "SCE_CTRL_RIGHT",    doom_key |-> KEY_RIGHTARROW],
    [vita_btn |-> "SCE_CTRL_CROSS",    doom_key |-> KEY_RCTRL],
    [vita_btn |-> "SCE_CTRL_SQUARE",   doom_key |-> 32],
    [vita_btn |-> "SCE_CTRL_CIRCLE",   doom_key |-> KEY_ESCAPE],
    [vita_btn |-> "SCE_CTRL_TRIANGLE", doom_key |-> KEY_ENTER],
    [vita_btn |-> "SCE_CTRL_LTRIGGER", doom_key |-> 44],
    [vita_btn |-> "SCE_CTRL_RTRIGGER", doom_key |-> 46],
    [vita_btn |-> "SCE_CTRL_START",    doom_key |-> KEY_ESCAPE],
    [vita_btn |-> "SCE_CTRL_SELECT",   doom_key |-> KEY_TAB] >>

AllButtons == {bmap[i].vita_btn : i \in 1..Len(bmap)}

\* The controller samples the model draws from.
Pads == { {},
          {"SCE_CTRL_UP"},
          {"SCE_CTRL_CIRCLE"},
          {"SCE_CTRL_CIRCLE", "SCE_CTRL_START"},
          AllButtons }

\* One pass of  for (i = 0; i < sizeof(bmap) / sizeof(bmap[0]); i++)  from
\* entry i on.  st = [q, calls, acc]: the queue, the add_key calls made and
\* the events among them made while the queue was not full.
RECURSIVE ScanFrom(_, _, _, _)
ScanFrom(i, st, old, new) ==
    IF i > Len(bmap) THEN st
    ELSE LET old_p == IF bmap[i].vita_btn \in old THEN 1 ELSE 0
             new_p == IF bmap[i].vita_btn \in new THEN 1 ELSE 0
             ev    == Event(bmap[i].doom_key, new_p)
         IN  IF old_p # new_p
             THEN ScanFrom(i + 1,
                           [q     |-> add_key(st.q, bmap[i].doom_key, new_p),
                            calls |-> Append(st.calls, ev),
                            acc   |-> IF IsFull(st.q) THEN st.acc
                                      ELSE Append(st.acc, ev)],
                           old, new)
             ELSE ScanFrom(i + 1, st, old, new)

\* The pass with old_pad and the new sample exchanged.
Scan_swapped(q, old, new) ==
    ScanFrom(1, [q |-> q, calls |-> <<>>, acc |-> <<>>], new, old)

Scan(q, old, new) == ScanFrom(1, [q |-> q, calls |-> <<>>, acc |-> <<>>], old, new)

\* main, lines 124-136: read the pad, diff it against old_pad, old_pad = pad.
MainSample ==
    /\ pc = "sample"
    /\ iter < MaxIter
    /\ \E pad \in Pads :
         LET st == Scan(Q, old_pad, pad)
         IN  /\ SetQ(st.q)
             /\ calls' = st.calls
             /\ accepted' = accepted \o st.acc
             /\ old_pad' = pad
             /\ sample' = pad
    /\ pc' = "tick"
    /\ iter' = iter + 1
    /\ op' = "scan"
    /\ UNCHANGED <<varsDev, varsOut, varsThr, varsV2, ncalls, delivered>>

\* doomgeneric_Tick returns to the loop; while it runs (pc = "tick") the
\* engine calls DG_GetKey any number of times.
TickReturn ==
    /\ pc = "tick"
    /\ pc' = "sample"
    /\ op' = "tick"
    /\ UNCHANGED <<varsDev, varsV1, varsOut, varsThr, varsV2, calls, ncalls, accepted,
                   delivered, sample, iter>>

\* After doomgeneric_Create: DG_Init has read old_pad from the controller.
Init ==
    /\ InitV1Vars /\ InitThrVars /\ InitV2Vars /\ InitOutHist /\ InitDevVars
    /\ old_pad \in Pads
    /\ pc = "sample"

Next == MainSample \/ DG_GetKey \/ TickReturn

Spec == Init /\ [][Next]_vars

(***************************************************************************)
(* v1 with add_key in a producer thread and DG_GetKey in a consumer        *)
(* thread, one statement per step, each thread in program order.           *)
(***************************************************************************)
\* The producer's position after line 44, if (next_head != queue_tail), taken
\* without the test.
AfterFullTest_always(next_head, tail) == "L45"

\* The producer's position after line 44: if (next_head != queue_tail).
AfterFullTest(next_head, tail) == IF next_head # tail THEN "L45" ELSE "idle"

\* add_key is called; line 43: int next_head = (queue_head + 1) % QUEUE_SIZE;
P_L43 ==
    /\ pc = "threads"
    /\ ppc = "idle"
    /\ ncalls < MaxCalls
    /\ p_ev' = DriverEvent(ncalls)
    /\ p_next_head' = (queue_head + 1) % QUEUE_SIZE
    /\ ppc' = "L44"
    /\ ncalls' = ncalls + 1
    /\ op' = "add_key"
    /\ UNCHANGED <<varsDev, varsV1, pc, varsOut, cpc, varsV2, calls, accepted, delivered,
                   sample, iter>>

\* line 44: if (next_head != queue_tail)
P_L44 ==
    /\ pc = "threads"
    /\ ppc = "L44"
    /\ ppc' = AfterFullTest(p_next_head, queue_tail)
    /\ accepted' = IF p_next_head # queue_tail THEN Append(accepted, p_ev)
                   ELSE accepted
    /\ UNCHANGED <<varsDev, varsV1, pc, varsOut, p_next_head, p_ev, cpc, varsV2, op, calls,
                   ncalls, delivered, sample, iter>>

\* line 45: key_queue[queue_head] = key;
P_L45 ==
    /\ pc = "threads"
    /\ ppc = "L45"
    /\ key_queue' = [key_queue EXCEPT ![queue_head + 1] = p_ev.key]
    /\ ppc' = "L46"
    /\ UNCHANGED <<varsDev, pressed_queue, queue_head, queue_tail, old_pad, pc, varsOut,
                   p_next_head, p_ev, cpc, varsV2, varsHist>>

\* line 46: pressed_queue[queue_head] = pressed;
P_L46 ==
    /\ pc = "threads"
    /\ ppc = "L46"
    /\ pressed_queue' = [pressed_queue EXCEPT ![queue_head + 1] = p_ev.pressed]
    /\ ppc' = "L47"
    /\ UNCHANGED <<varsDev, key_queue, queue_head, queue_tail, old_pad, pc, varsOut,
                   p_next_head, p_ev, cpc, varsV2, varsHist>>

\* line 47: queue_head = next_head;
P_L47 ==
    /\ pc = "threads"
    /\ ppc = "L47"
    /\ queue_head' = p_next_head
    /\ ppc' = "idle"
    /\ UNCHANGED <<varsDev, key_queue, pressed_queue, queue_tail, old_pad, pc, varsOut,
                   p_next_head, p_ev, cpc, varsV2, varsHist>>

\* DG_GetKey is called; line 99: if (queue_tail == queue_head) return 0;
C_L99 ==
    /\ pc = "threads"
    /\ cpc = "idle"
    /\ IF queue_tail = queue_head
       THEN ret' = 0 /\ cpc' = "idle"
       ELSE ret' = ret /\ cpc' = "L101"
    /\ op' = "DG_GetKey"
    /\ UNCHANGED <<varsDev, varsV1, pc, out_key, out_pressed, ppc, p_next_head, p_ev,
                   varsV2, calls, ncalls, accepted, delivered, sample, iter>>

\* line 101: *key = key_queue[queue_tail];
C_L101 ==
    /\ pc = "threads"
    /\ cpc = "L101"
    /\ out_key' = ToUChar(key_queue[queue_tail + 1])
    /\ cpc' = "L102"
    /\ UNCHANGED <<varsDev, varsV1, pc, ret, out_pressed, ppc, p_next_head, p_ev, varsV2,
                   varsHist>>

\* line 102: *pressed = pressed_queue[queue_tail];
C_L102 ==
    /\ pc = "threads"
    /\ cpc = "L102"
    /\ out_pressed' = pressed_queue[queue_tail + 1]
    /\ cpc' = "L103"
    /\ UNCHANGED <<varsDev, varsV1, pc, ret, out_key, ppc, p_next_head, p_ev, varsV2,
                   varsHist>>

\* line 103: queue_tail = (queue_tail + 1) % QUEUE_SIZE;  line 105: return 1;
C_L103 ==
    /\ pc = "threads"
    /\ cpc = "L103"
    /\ queue_tail' = (queue_tail + 1) % QUEUE_SIZE
    /\ ret' = 1
    /\ delivered' = Append(delivered, Event(out_key, out_pressed))
    /\ cpc' = "idle"
    /\ UNCHANGED <<varsDev, key_queue, pressed_queue, queue_head, old_pad, pc, out_key,
                   out_pressed, ppc, p_next_head, p_ev, varsV2, op, calls, ncalls,
                   accepted, sample, iter>>

InitThreads ==
    /\ InitV1Vars /\ InitThrVars /\ InitV2Vars /\ InitOutHist /\ InitDevVars
    /\ old_pad = {}
    /\ pc = "threads"

Producer == P_L43 \/ P_L44 \/ P_L45 \/ P_L46 \/ P_L47

Consumer == C_L99 \/ C_L101 \/ C_L102 \/ C_L103

NextThreads == Producer \/ Consumer

SpecThreads == InitThreads /\ [][NextThreads]_vars

(***************************************************************************)
(* v2: src/src/doomgeneric_vita.c.                                         *)
(***************************************************************************)
\* static const button_mapping_t button_map[], up to the { 0, 0 } sentinel.
button_map == <<
    [vita_button |-> "SCE_CTRL_UP",       doom_key |-> KEY_UPARROW],
    [vita_button |-> "SCE_CTRL_DOWN",     doom_key |-> KEY_DOWNARROW],
    [vita_button |-> "SCE_CTRL_LEFT",     doom_key |-> KEY_LEFTARROW],
    [vita_button |-> "SCE_CTRL_RIGHT",    doom_key |-> KEY_RIGHTARROW],
    [vita_button |-> "SCE_CTRL_CROSS",    doom_key |-> KEY_USE],
    [vita_button |-> "SCE_CTRL_CIRCLE",   doom_key |-> KEY_FIRE],
    [vita_button |-> "SCE_CTRL_SQUARE",   doom_key |-> KEY_STRAFE_L],
    [vita_button |-> "SCE_CTRL_TRIANGLE", doom_key |-> KEY_STRAFE_R],
    [vita_button |-> "SCE_CTRL_LTRIGGER", doom_key |-> KEY_RSHIFT],
    [vita_button |-> "SCE_CTRL_RTRIGGER", doom_key |-> KEY_FIRE],
    [vita_button |-> "SCE_CTRL_START",    doom_key |-> KEY_ESCAPE],
    [vita_button |-> "SCE_CTRL_SELECT",   doom_key |-> KEY_TAB] >>

\* static const unsigned char weapon_keys[] = { '1', ..., '7' }
weapon_keys == <<49, 50, 51, 52, 53, 54, 55>>

Q2 == [key_queue |-> key_queue2, key_queue_read |-> key_queue_read,
       key_queue_write |-> key_queue_write]

IsFull2(q) == (q.key_queue_write + 1) % MAX_KEY_QUEUE = q.key_queue_read

Occupancy2(q) == (q.key_queue_write - q.key_queue_read) % MAX_KEY_QUEUE

\* add_key_event without the modulo on the write cursor.
add_key_event_nowrap(q, key, pressed) ==
    [q EXCEPT !.key_queue[q.key_queue_write + 1] = Event(ToUChar(key), pressed),
              !.key_queue_write = q.key_queue_write + 1]

\* static void add_key_event(unsigned char key, int pressed)
add_key_event(q, key, pressed) ==
    [q EXCEPT !.key_queue[q.key_queue_write + 1] = Event(ToUChar(key), pressed),
              !.key_queue_write = (q.key_queue_write + 1) % MAX_KEY_QUEUE]

\* get_key_event without the empty test.
get_key_event_nocheck(q, okey, opressed) ==
    [q |-> [q EXCEPT !.key_queue_read = (q.key_queue_read + 1) % MAX_KEY_QUEUE],
     ret |-> 1,
     key |-> q.key_queue[q.key_queue_read + 1].key,
     pressed |-> q.key_queue[q.key_queue_read + 1].pressed]

\* static int get_key_event(unsigned char *key, int *pressed):
\* [q, ret, key, pressed]
get_key_event(q, okey, opressed) ==
    IF q.key_queue_read = q.key_queue_write
    THEN [q |-> q, ret |-> 0, key |-> okey, pressed |-> opressed]
    ELSE [q |-> [q EXCEPT !.key_queue_read =
                              (q.key_queue_read + 1) % MAX_KEY_QUEUE],
          ret |-> 1,
          key |-> q.key_queue[q.key_queue_read + 1].key,
          pressed |-> q.key_queue[q.key_queue_read + 1].pressed]

SetQ2(q) ==
    /\ key_queue2' = q.key_queue
    /\ key_queue_read' = q.key_queue_read
    /\ key_queue_write' = q.key_queue_write

\* An add_key_event call and the part of DG_GetKey that made it.
Call(k, p, src) == [key |-> k, pressed |-> p, src |-> src]

Abs(x) == IF x < 0 THEN -x ELSE x

\* lines 228-229, 260: if (abs(lx) < 30) lx = 0;
Deadzone(x) == IF Abs(x) < 30 THEN 0 ELSE x

\* lines 209-220: the add_key_event calls of the button loop, from entry i on.
RECURSIVE ButtonCallsFrom(_, _, _)
ButtonCallsFrom(i, buttons, prev) ==
    IF i > Len(button_map) THEN <<>>
    ELSE LET btn == button_map[i].vita_button
         IN  (IF btn \in buttons /\ btn \notin prev
              THEN <<Call(button_map[i].doom_key, 1, "button")>>
              ELSE IF btn \notin buttons /\ btn \in prev
              THEN <<Call(button_map[i].doom_key, 0, "button")>>
              ELSE <<>>) \o ButtonCallsFrom(i + 1, buttons, prev)

\* The stick code with the release of the positive virtual button left out.
AxisCalls_norelease(v, prev, neg_key, pos_key, src) ==
    (IF v < -50 /\ prev >= -50 THEN <<Call(neg_key, 1, src)>>
     ELSE IF v >= -50 /\ prev < -50 THEN <<Call(neg_key, 0, src)>>
     ELSE <<>>)
    \o
    (IF v > 50 /\ prev <= 50 THEN <<Call(pos_key, 1, src)>>
     ELSE <<>>)

\* lines 232-240 (ly), 243-251 (lx), 262-270 (rx): the add_key_event calls
\* for one axis with value v (after the deadzone) and previous value prev.
AxisCalls(v, prev, neg_key, pos_key, src) ==
    (IF v < -50 /\ prev >= -50 THEN <<Call(neg_key, 1, src)>>
     ELSE IF v >= -50 /\ prev < -50 THEN <<Call(neg_key, 0, src)>>
     ELSE <<>>)
    \o
    (IF v > 50 /\ prev <= 50 THEN <<Call(pos_key, 1, src)>>
     ELSE IF v <= 50 /\ prev > 50 THEN <<Call(pos_key, 0, src)>>
     ELSE <<>>)

\* The weapon switch on any touch in the upper part, held or new.
WeaponSwitch_level(touch, ptouch) ==
    touch.reportNum > 0 /\ touch.y < 200

\* lines 279-286: whether the touch switches the weapon.
WeaponSwitch(touch, ptouch) ==
    touch.reportNum > 0 /\ ptouch = 0 /\ touch.y < 200

NextWeapon(touch, ptouch, weapon) ==
    IF WeaponSwitch(touch, ptouch) THEN (weapon + 1) % 7 ELSE weapon

TouchCalls(touch, ptouch, weapon) ==
    IF WeaponSwitch(touch, ptouch)
    THEN <<Call(weapon_keys[NextWeapon(touch, ptouch, weapon) + 1], 1, "touch"),
           Call(weapon_keys[NextWeapon(touch, ptouch, weapon) + 1], 0, "touch")>>
    ELSE <<>>

\* lines 203-290: all add_key_event calls of one DG_GetKey, in order.
SampleCalls(ctrl, touch) ==
    ButtonCallsFrom(1, ctrl.buttons, prev_ctrl)
    \o AxisCalls(Deadzone(ctrl.ly - 128), prev_ly, KEY_UPARROW, KEY_DOWNARROW, "ly")
    \o AxisCalls(Deadzone(ctrl.lx - 128), prev_lx, KEY_LEFTARROW, KEY_RIGHTARROW, "lx")
    \o AxisCalls(Deadzone(ctrl.rx - 128), prev_rx, KEY_STRAFE_L, KEY_STRAFE_R, "rx")
    \o TouchCalls(touch, prev_touch, current_weapon)

RECURSIVE AddAll(_, _, _)
AddAll(q, cs, i) ==
    IF i > Len(cs) THEN q
    ELSE AddAll(add_key_event(q, cs[i].key, cs[i].pressed), cs, i + 1)

AllButtons2 == {button_map[i].vita_button : i \in 1..Len(button_map)}

Ctrl(b, lx, ly, rx) == [buttons |-> b, lx |-> lx, ly |-> ly, rx |-> rx]

Touch(n, y) == [reportNum |-> n, y |-> y]

\* Raw stick values: 128 is the centre; 77/78 and 178/179 lie on either
\* side of the -50 and +50 thresholds, 99..157 inside the deadzone.
AxisRaw == {0, 77, 78, 99, 157, 178, 179, 255}

\* The samples (controller, touch) the model draws from.
Samples ==
    {[ctrl |-> Ctrl({}, 128, 128, 128), touch |-> Touch(0, 0)]}
    \cup {[ctrl |-> Ctrl({}, 128, v, 128), touch |-> Touch(0, 0)] : v \in AxisRaw}
    \cup {[ctrl |-> Ctrl({}, v, 128, 128), touch |-> Touch(0, 0)] : v \in AxisRaw}
    \cup {[ctrl |-> Ctrl({}, 128, 128, v), touch |-> Touch(0, 0)] : v \in AxisRaw}
    \cup {[ctrl |-> Ctrl(b, 128, 128, 128), touch |-> Touch(0, 0)] :
             b \in {AllButtons2, {"SCE_CTRL_UP"}}}
    \cup {[ctrl |-> Ctrl({}, 128, 128, 128), touch |-> Touch(1, y)] :
             y \in {100, 200}}
    \cup {[ctrl |-> Ctrl(AllButtons2, 128, 0, 128), touch |-> Touch(1, 100)]}

\* DG_GetKey, lines 203-290: sample the controller and the touch panel,
\* enqueue the transitions, remember the sample.
DG_GetKey2_SampleOf(S, max) ==
    /\ pc = "v2_sample"
    /\ iter < max
    /\ \E s \in S :
         LET cs == SampleCalls(s.ctrl, s.touch)
         IN  /\ SetQ2(AddAll(Q2, cs, 1))
             /\ calls' = cs
             /\ accepted' = accepted \o cs
             /\ sample' = s
             /\ prev_ly' = Deadzone(s.ctrl.ly - 128)
             /\ prev_lx' = Deadzone(s.ctrl.lx - 128)
             /\ prev_rx' = Deadzone(s.ctrl.rx - 128)
             /\ current_weapon' = NextWeapon(s.touch, prev_touch, current_weapon)
             /\ prev_touch' = s.touch.reportNum
             /\ prev_ctrl' = s.ctrl.buttons
    /\ pc' = "v2_poll"
    /\ iter' = iter + 1
    /\ op' = "sample"
    /\ UNCHANGED <<varsDev, varsV1, varsOut, varsThr, ncalls, delivered>>

DG_GetKey2_Sample == DG_GetKey2_SampleOf(Samples, MaxPolls)

\* DG_GetKey, line 293: return get_key_event(key, pressed);
DG_GetKey2_Poll ==
    /\ pc = "v2_poll"
    /\ LET r == get_key_event(Q2, out_key, out_pressed)
       IN  /\ SetQ2(r.q)
           /\ ret' = r.ret
           /\ out_key' = r.key
           /\ out_pressed' = r.pressed
           /\ delivered' = IF r.ret = 1
                           THEN Append(delivered, Event(r.key, r.pressed))
                           ELSE delivered
    /\ pc' = "v2_sample"
    /\ op' = "get_key_event"
    /\ UNCHANGED <<varsDev, varsV1, varsThr, prev_ctrl, prev_lx, prev_ly, prev_rx,
                   prev_touch, current_weapon, calls, ncalls, accepted, sample,
                   iter>>

\* After DG_Init (v2): prev_ctrl zeroed, the statics at their initialisers.
InitV2 ==
    /\ InitV1Vars /\ InitThrVars /\ InitV2Vars /\ InitOutHist /\ InitDevVars
    /\ old_pad = {}
    /\ pc = "v2_sample"

NextV2 == DG_GetKey2_Sample \/ DG_GetKey2_Poll

SpecV2 == InitV2 /\ [][NextV2]_vars

\* Either backend, as built from its file.
InitPrograms == Init \/ InitV2

NextPrograms == Next \/ NextV2

SpecPrograms == InitPrograms /\ [][NextPrograms]_vars

(***************************************************************************)
(* v2: main.  The WAD test, then doomgeneric_Create and the tick loop, in  *)
(* which the engine calls DG_GetKey.                                       *)
(***************************************************************************)
\* Results of sceIoGetstat: 0, or a negative error code when the file is
\* not there.
StatResults == {0, -1}

\* main, line 322:  if (sceIoGetstat(".../chex2.wad", &stat) < 0)
\* When the test fails: lines 340-343, doomgeneric_Create, then the loop.
Main2_Stat ==
    /\ pc = "v2_main"
    /\ \E st \in StatResults :
         /\ ret' = st
         /\ pc' = IF st < 0 THEN "v2_nowad" ELSE "v2_sample"
    /\ op' = "sceIoGetstat"
    /\ UNCHANGED <<varsDev, varsV1, varsThr, varsV2, out_key, out_pressed, calls,
                   ncalls, accepted, delivered, sample, iter>>

\* main, lines 329-337: wait for any button, then sceKernelExitProcess(0).
Main2_NoWad ==
    /\ pc = "v2_nowad"
    /\ \E buttons \in {{}, {"SCE_CTRL_CROSS"}, AllButtons2} :
         /\ sample' = buttons
         /\ pc' = IF buttons # {} THEN "v2_exit" ELSE "v2_nowad"
         /\ op' = IF buttons # {} THEN "sceKernelExitProcess"
                  ELSE "sceKernelDelayThread"
    /\ UNCHANGED <<varsDev, varsV1, varsThr, varsV2, varsOut, calls, ncalls,
                   accepted, delivered, iter>>

InitMain2 ==
    /\ InitV1Vars /\ InitThrVars /\ InitV2Vars /\ InitOutHist /\ InitDevVars
    /\ old_pad = {}
    /\ pc = "v2_main"

NextMain2 == Main2_Stat \/ Main2_NoWad \/ NextV2

SpecMain2 == InitMain2 /\ [][NextMain2]_vars

(***************************************************************************)
(* v2: a long run of DG_GetKey calls with the touch panel only.            *)
(***************************************************************************)
\* No touch, one or two touches; the first at y = 199 or at y = 200.
TouchSamples ==
    {[ctrl |-> Ctrl({}, 128, 128, 128), touch |-> Touch(n, y)] :
        n \in {0, 1, 2}, y \in {199, 200}}

DG_GetKey2_TouchSample == DG_GetKey2_SampleOf(TouchSamples, MaxTouchPolls)

NextTouch == DG_GetKey2_TouchSample \/ DG_GetKey2_Poll

SpecTouch == InitV2 /\ [][NextTouch]_vars

(***************************************************************************)
(* v1: DG_GetTicksMs and the clock it reads.                               *)
(***************************************************************************)
\* Time passes.
RtcAdvance ==
    /\ pc = "clock"
    /\ \E d \in ClockSteps :
         /\ elapsed_us + d <= MaxElapsedUs
         /\ rtc' = RtcAdd(rtc, d)
         /\ elapsed_us' = elapsed_us + d
    /\ op' = "clock"
    /\ UNCHANGED <<DG_ScreenBuffer, tex_data, ticks_ms, varsV1, varsThr, varsV2,
                   varsOut, calls, ncalls, accepted, delivered, sample, iter, pc>>

\* A call of DG_GetTicksMs (v1).  ticks_ms records, for every call, the
\* microseconds since DG_Init at the call and the value returned.
DG_GetTicksMs ==
    /\ pc = "clock"
    /\ Len(ticks_ms) < MaxTicksCalls
    /\ ticks_ms' = Append(ticks_ms, [at |-> elapsed_us,
                                     result |-> GetTicksMsResult(rtc)])
    /\ op' = "DG_GetTicksMs"
    /\ UNCHANGED <<DG_ScreenBuffer, tex_data, rtc, elapsed_us, varsV1, varsThr,
                   varsV2, varsOut, calls, ncalls, accepted, delivered, sample,
                   iter, pc>>

\* After DG_Init (v1), which reads no clock.
InitClock ==
    /\ InitV1Vars /\ InitThrVars /\ InitV2Vars /\ InitOutHist
    /\ DG_ScreenBuffer = Frame(0)
    /\ tex_data \in {[j \in 1..(TexStride * DOOMGENERIC_RESY) |-> Word(0, 0)]}
    /\ rtc \in RtcStarts
    /\ elapsed_us = 0
    /\ ticks_ms = <<>>
    /\ old_pad = {}
    /\ pc = "clock"

NextClock == RtcAdvance \/ DG_GetTicksMs

SpecClock == InitClock /\ [][NextClock]_vars

(***************************************************************************)
(* DG_DrawFrame of either backend, and the engine rendering frames.        *)
(***************************************************************************)
\* The engine renders a frame into DG_ScreenBuffer.
EngineRender ==
    /\ pc \in {"draw", "draw2"}
    /\ DG_ScreenBuffer' \in Frames
    /\ op' = "render"
    /\ UNCHANGED <<tex_data, rtc, elapsed_us, ticks_ms, varsV1, varsThr, varsV2,
                   varsOut, calls, ncalls, accepted, delivered, sample, iter, pc>>

\* A call of DG_DrawFrame (v1), lines 67-75.
DG_DrawFrame ==
    /\ pc = "draw"
    /\ tex_data' = DrawFrame(DG_ScreenBuffer, tex_data)
    /\ op' = "DG_DrawFrame"
    /\ UNCHANGED <<DG_ScreenBuffer, rtc, elapsed_us, ticks_ms, varsV1, varsThr,
                   varsV2, varsOut, calls, ncalls, accepted, delivered, sample,
                   iter, pc>>

\* A call of DG_DrawFrame (v2), lines 152-167.
DG_DrawFrame2 ==
    /\ pc = "draw2"
    /\ tex_data' = DrawFrame2(DG_ScreenBuffer, tex_data)
    /\ op' = "DG_DrawFrame"
    /\ UNCHANGED <<DG_ScreenBuffer, rtc, elapsed_us, ticks_ms, varsV1, varsThr,
                   varsV2, varsOut, calls, ncalls, accepted, delivered, sample,
                   iter, pc>>

InitGfx ==
    /\ InitV1Vars /\ InitThrVars /\ InitV2Vars /\ InitOutHist
    /\ DG_ScreenBuffer \in Frames
    /\ tex_data \in NewTextures
    /\ rtc = Rtc(14884, Word(48797, 6144), 0)
    /\ elapsed_us = 0
    /\ ticks_ms = <<>>
    /\ old_pad = {}

\* v1: the texture after DG_Init, a frame after doomgeneric_Create.
InitDraw == InitGfx /\ pc = "draw"

NextDraw == EngineRender \/ DG_DrawFrame

SpecDraw == InitDraw /\ [][NextDraw]_vars

\* v2.
InitDraw2 == InitGfx /\ pc = "draw2"

NextDraw2 == EngineRender \/ DG_DrawFrame2

SpecDraw2 == InitDraw2 /\ [][NextDraw2]_vars

(***************************************************************************)
(* v1: the main loop with nothing held at DG_Init, and the main loop with  *)
(* a consumer that keeps polling.  The run stops inside the tick of         *)
(* iteration MaxIter, where the engine still polls.                        *)
(***************************************************************************)
InitNoneHeld == Init /\ old_pad = {}

SpecNoneHeld == InitNoneHeld /\ [][Next]_vars

TickReturnInRun == iter < MaxIter /\ TickReturn

NextLoop == MainSample \/ DG_GetKey \/ TickReturnInRun

\* The step from the sampling pass, which waits for nothing, into the tick.
SampleToTick == pc = "sample" /\ iter < MaxIter /\ pc' = "tick"

\* The engine keeps calling DG_GetKey while a tick runs, and the loop goes
\* on from the sampling pass into the tick.
SpecLoop ==
    Init /\ [][NextLoop]_vars /\ WF_vars(DG_GetKey) /\ WF_pc(SampleToTick)

(***************************************************************************)
(* Properties of v1.                                                       *)
(***************************************************************************)
QueueVars == <<key_queue, pressed_queue, queue_head, queue_tail>>

\* The events stored from the read cursor up to the write cursor, oldest
\* first.
Pending(q) ==
    [i \in 1..Occupancy(q) |->
        Event(q.key_queue[((q.queue_tail + i - 1) % QUEUE_SIZE) + 1],
              q.pressed_queue[((q.queue_tail + i - 1) % QUEUE_SIZE) + 1])]

FirstN(s, n) == IF Len(s) <= n THEN s ELSE SubSeq(s, 1, n)

\* C1: a call of add_key on a full queue
\* ((queue_head + 1) % QUEUE_SIZE = queue_tail) leaves key_queue,
\* pressed_queue, queue_head and queue_tail unchanged.
C1_AddKeyOnFullChangesNothing ==
    [][(op' = "add_key" /\ IsFull(Q)) => UNCHANGED QueueVars]_vars

\* add_key has just been called, the queue is full, and at least one call
\* was made on a full queue.
C1_Witness ==
    /\ op = "add_key"
    /\ IsFull(Q)
    /\ ncalls > Len(accepted)
    /\ calls[1] # accepted[Len(accepted)]

\* C3: the events returned by the successful DG_GetKey calls are a prefix of
\* the events add_key was called with while the queue was not full, in the
\* same order.
C3_DeliveredIsPrefixOfAccepted == IsPrefix(delivered, accepted)

\* More events than the ring has slots were delivered, after a drop.
C3_Witness ==
    /\ Len(delivered) > QUEUE_SIZE
    /\ ncalls > Len(accepted)
    /\ op = "DG_GetKey"
    /\ ret = 1

C6_Cursors ==
    /\ queue_head \in 0..(QUEUE_SIZE - 1)
    /\ queue_tail \in 0..(QUEUE_SIZE - 1)
    /\ Len(accepted) - Len(delivered) = Occupancy(Q)
    /\ Len(accepted) - Len(delivered) <= QUEUE_SIZE - 1

\* C6: both cursors stay in [0, QUEUE_SIZE); the number of accepted and not
\* yet delivered events is (queue_head - queue_tail) mod QUEUE_SIZE and at
\* most QUEUE_SIZE - 1; DG_GetKey returns 0 exactly when it is called with
\* no accepted event undelivered, which is when queue_head = queue_tail.
C6_CursorsCountAndEmptiness ==
    /\ []C6_Cursors
    /\ [][op' = "DG_GetKey" =>
            /\ (ret' = 0) <=> (Len(accepted) = Len(delivered))
            /\ (ret' = 0) <=> (queue_head = queue_tail)]_vars

\* The queue holds QUEUE_SIZE - 1 events across the wrap of the ring.
C6_Witness ==
    /\ Occupancy(Q) = QUEUE_SIZE - 1
    /\ queue_head < queue_tail
    /\ Len(delivered) > 0

KeyEvents(s, k) == SelectSeq(s, LAMBDA e : e.key = k)

\* Press, release, press, ... starting with a press.
Alternates(s) == \A i \in 1..Len(s) : s[i].pressed = i % 2

BmapKeys == {bmap[i].doom_key : i \in 1..Len(bmap)}

\* C5: for every key code, the events of that key code returned by
\* DG_GetKey alternate press/release and start with a press.
C5_DeliveredAlternatePerKey ==
    \A k \in BmapKeys : Alternates(KeyEvents(delivered, k))

RECURSIVE ExpectedFrom(_, _, _)
ExpectedFrom(i, old, new) ==
    IF i > Len(bmap) THEN <<>>
    ELSE (IF (bmap[i].vita_btn \in old) # (bmap[i].vita_btn \in new)
          THEN <<Event(bmap[i].doom_key,
                       IF bmap[i].vita_btn \in new THEN 1 ELSE 0)>>
          ELSE <<>>) \o ExpectedFrom(i + 1, old, new)

\* One event per bmap entry whose bit differs between old and new, in table
\* order: a press when the bit became set, a release when it became clear.
ExpectedCalls(old, new) == ExpectedFrom(1, old, new)

\* C8: one main-loop iteration calls add_key once for every bmap entry whose
\* bit differs between old_pad and the sample, in table order, with
\* pressed = 1 for a bit that became set and 0 for one that became clear, and
\* for no other entry; the queue then holds what it held followed by those
\* events (up to its capacity); old_pad ends equal to the sample; and a
\* sample equal to old_pad enqueues nothing.
C8_ScanEnqueuesExactlyTheTransitions ==
    [][op' = "scan" =>
         /\ calls' = ExpectedCalls(old_pad, sample')
         /\ Pending(Q)' = FirstN(Pending(Q) \o ExpectedCalls(old_pad, sample'),
                                 QUEUE_SIZE - 1)
         /\ old_pad' = sample'
         /\ (sample' = old_pad => calls' = <<>> /\ UNCHANGED QueueVars)]_vars

\* An iteration that enqueued a release followed by a press.
C8_Witness ==
    /\ op = "scan"
    /\ Len(calls) >= 2
    /\ \E i, j \in 1..Len(calls) :
          i < j /\ calls[i].pressed = 0 /\ calls[j].pressed = 1
    /\ Pending(Q) # <<>>

\* The producer is between its full test and the publication of the slot.
ProducerWriting == ppc \in {"L45", "L46", "L47"}

\* The consumer is between its empty test and the advance of queue_tail.
ConsumerReading == cpc \in {"L101", "L102", "L103"}

\* C7: with the statements of add_key and DG_GetKey interleaved, each thread
\* in program order: the consumer never reads the slot the producer is
\* writing; the slots between the cursors hold exactly the accepted, not yet
\* delivered events whose write is complete, in order (none overwritten);
\* and the delivered events are a prefix of the accepted ones.
C7_InterleavedQueueInvariants ==
    /\ ~(ProducerWriting /\ ConsumerReading /\ queue_head = queue_tail)
    /\ Len(delivered) + Occupancy(Q) + (IF ProducerWriting THEN 1 ELSE 0)
         = Len(accepted)
    /\ Pending(Q) = SubSeq(accepted, Len(delivered) + 1,
                           Len(delivered) + Occupancy(Q))
    /\ IsPrefix(delivered, accepted)

\* The producer writes a slot of the second lap of the ring while the
\* consumer is reading another slot.
C7_Witness ==
    /\ ProducerWriting
    /\ ConsumerReading
    /\ Len(accepted) > QUEUE_SIZE
    /\ ncalls > Len(accepted)

(***************************************************************************)
(* Properties of v2, and of both backends.                                 *)
(***************************************************************************)
QueueVars2 == <<key_queue2, key_queue_read, key_queue_write>>

\* Every call of the sequence cs (from the i-th on, applied to q in order)
\* that finds the queue full leaves it as it was.
RECURSIVE FullCallsDrop(_, _, _)
FullCallsDrop(q, cs, i) ==
    IF i > Len(cs) THEN TRUE
    ELSE /\ IsFull2(q) => add_key_event(q, cs[i].key, cs[i].pressed) = q
         /\ FullCallsDrop(add_key_event(q, cs[i].key, cs[i].pressed), cs, i + 1)

\* C2: an add_key_event call made while the queue is full
\* ((key_queue_write + 1) % MAX_KEY_QUEUE = key_queue_read) leaves the
\* storage and both cursors unchanged.
C2_AddKeyEventOnFullDrops ==
    [][op' = "sample" => FullCallsDrop(Q2, calls', 1)]_vars

\* C4: a poll of an empty queue (DG_GetKey of v1 with
\* queue_tail = queue_head, get_key_event of v2 with
\* key_queue_read = key_queue_write) returns 0 and leaves the cursors, the
\* storage and the caller's *key and *pressed unchanged.
C4_PollOnEmptyChangesNothing ==
    [][(\/ op' = "DG_GetKey" /\ queue_tail = queue_head
        \/ op' = "get_key_event" /\ key_queue_read = key_queue_write)
       => /\ ret' = 0
          /\ UNCHANGED <<QueueVars, QueueVars2, out_key, out_pressed>>]_vars

\* A poll has just returned 0 after an earlier poll had delivered an event
\* into *key and *pressed (v1: queue_tail = queue_head; v2:
\* key_queue_read = key_queue_write).
C4_Witness ==
    /\ ret = 0
    /\ delivered # <<>>
    /\ out_key = delivered[Len(delivered)].key
    /\ out_key # 0
    /\ \/ op = "DG_GetKey" /\ queue_tail = queue_head /\ queue_tail > 0
       \/ op = "get_key_event" /\ key_queue_read = key_queue_write
                               /\ key_queue_read > 0

Axes == {"ly", "lx", "rx"}

AxisRawOf(ctrl, a) ==
    IF a = "ly" THEN ctrl.ly ELSE IF a = "lx" THEN ctrl.lx ELSE ctrl.rx

AxisPrev(a) == IF a = "ly" THEN prev_ly ELSE IF a = "lx" THEN prev_lx ELSE prev_rx

\* The virtual button of the negative and of the positive direction.
NegKey(a) ==
    IF a = "ly" THEN KEY_UPARROW ELSE IF a = "lx" THEN KEY_LEFTARROW
    ELSE KEY_STRAFE_L

PosKey(a) ==
    IF a = "ly" THEN KEY_DOWNARROW ELSE IF a = "lx" THEN KEY_RIGHTARROW
    ELSE KEY_STRAFE_R

FromAxis(cs, a) == SelectSeq(cs, LAMBDA c : c.src = a)

OfKey(cs, k) == SelectSeq(cs, LAMBDA c : c.key = k)

InDeadzoneBand(raw) == Abs(raw - 128) < 30

\* The calls cs of one axis hold exactly one event for key k, a press
\* (pressed = 1) or a release (pressed = 0), when the threshold was crossed,
\* and at most one event for k in any case.
OneEventOnCrossing(cs, k, was_past, is_past) ==
    /\ Len(OfKey(cs, k)) <= 1
    /\ was_past # is_past =>
          /\ Len(OfKey(cs, k)) = 1
          /\ OfKey(cs, k)[1].pressed = (IF is_past THEN 1 ELSE 0)

CrossingsOf(cs, a, raw) ==
    /\ OneEventOnCrossing(FromAxis(cs, a), NegKey(a),
                          AxisPrev(a) < -50, raw - 128 < -50)
    /\ OneEventOnCrossing(FromAxis(cs, a), PosKey(a),
                          AxisPrev(a) > 50, raw - 128 > 50)

\* C9 as claimed: for each axis, a sample inside the deadzone band produces
\* no event of the axis, and a sample that crosses -50 or +50 enqueues
\* exactly one event for the affected virtual button, never both a press and
\* a release of it.
C9_DeadzoneSilentAndOneEventPerCrossing ==
    [][op' = "sample" =>
         \A a \in Axes :
            LET raw == AxisRawOf(sample'.ctrl, a)
            IN  /\ InDeadzoneBand(raw) => FromAxis(calls', a) = <<>>
                /\ CrossingsOf(calls', a, raw)]_vars

\* C9 as amended: for each axis, a sample inside the deadzone band enqueues
\* no press; it enqueues the release of the virtual button of the axis that
\* was pressed, if any, and nothing else.  A sample that crosses -50 or +50
\* enqueues exactly one event for the affected virtual button (press when
\* moving past, release when moving back), a sample that crosses neither
\* enqueues none, and no call holds two events of one virtual button.
C9_DeadzoneReleasesAndOneEventPerCrossing ==
    [][op' = "sample" =>
         \A a \in Axes :
            LET raw == AxisRawOf(sample'.ctrl, a)
                cs  == FromAxis(calls', a)
            IN  /\ InDeadzoneBand(raw) =>
                      /\ \A i \in 1..Len(cs) : cs[i].pressed = 0
                      /\ Len(cs) = (IF AxisPrev(a) < -50 \/ AxisPrev(a) > 50
                                    THEN 1 ELSE 0)
                /\ CrossingsOf(calls', a, raw)
                /\ \A i \in 1..Len(cs) : cs[i].key \in {NegKey(a), PosKey(a)}
                /\ ((AxisPrev(a) < -50) = (raw - 128 < -50)
                    /\ (AxisPrev(a) > 50) = (raw - 128 > 50)) => cs = <<>>]_vars

\* The left stick returned into the deadzone band (not to the centre) from
\* beyond +50, and the call enqueued the release of KEY_DOWNARROW.
C9_Witness ==
    /\ op = "sample"
    /\ sample.ctrl.ly = 157
    /\ FromAxis(calls, "ly") = <<Call(KEY_DOWNARROW, 0, "ly")>>
    /\ prev_ly = 0

\* Key k has, among the first n events of s, a press not followed by a
\* release.
HeldAfter(s, n, k) ==
    \E j \in 1..n :
        /\ s[j].key = k /\ s[j].pressed = 1
        /\ \A m \in (j + 1)..n : ~(s[m].key = k /\ s[m].pressed = 0)

Opposite(a, k) == IF k = NegKey(a) THEN PosKey(a) ELSE NegKey(a)

\* C10: in the order of the add_key_event calls made for one axis, no press
\* of a virtual button comes while the opposite virtual button of the axis
\* has a press not yet followed by its release.
C10_AxisButtonsMutuallyExclusive ==
    \A a \in Axes :
        LET s == FromAxis(accepted, a)
        IN  \A i \in 1..Len(s) :
                s[i].pressed = 1 => ~HeldAfter(s, i - 1, Opposite(a, s[i].key))

(***************************************************************************)
(* Properties of DG_GetKey, main, the clock and the blitter.               *)
(***************************************************************************)
SampledState == <<key_queue2, key_queue_write, prev_ctrl, prev_lx, prev_ly, prev_rx,
                  prev_touch, current_weapon>>

\* C11: DG_GetKey (v2) is a thin wrapper over get_key_event: the part of a
\* call that runs before  return get_key_event(key, pressed)  makes no
\* add_key_event call and leaves key_queue_write, the queued events,
\* prev_ctrl, prev_lx, prev_ly, prev_rx, prev_touch and current_weapon as
\* they were.
C11_GetKeyOnlyPolls ==
    [][pc = "v2_sample" /\ op' = "sample" =>
         calls' = <<>> /\ UNCHANGED SampledState]_vars

\* C12: when the WAD is missing (sceIoGetstat < 0) main (v2) does not end
\* the process: no step taken in the missing-WAD branch reaches
\* sceKernelExitProcess.
C12_MissingWadNeverExits ==
    [][pc = "v2_nowad" => pc' # "v2_exit"]_vars

\* a <= b for two uint32_t values.
WordLeq(a, b) == a.hi < b.hi \/ (a.hi = b.hi /\ a.lo <= b.lo)

\* Whether the uint32_t w is within one of the number n, 0 <= n < 65535.
WordNear(w, n) == w.hi = 0 /\ w.lo >= n - 1 /\ w.lo <= n + 1

\* Of two DG_GetTicksMs calls the later one never returns less.
TicksNeverDecrease ==
    \A i \in 1..Len(ticks_ms) : \A j \in i..Len(ticks_ms) :
        WordLeq(ticks_ms[i].result, ticks_ms[j].result)

\* C13: DG_GetTicksMs (v1) returns the milliseconds elapsed since DG_Init,
\* to within a millisecond, so a call right after DG_Init returns about 0;
\* and of two calls the later one never returns less than the earlier one.
C13_TicksAreMsSinceInit ==
    /\ \A i \in 1..Len(ticks_ms) :
         WordNear(ticks_ms[i].result, ticks_ms[i].at \div 1000)
    /\ TicksNeverDecrease

\* Byte n of a uint32_t, byte 0 the least significant.
ByteOf(w, n) ==
    IF n = 0 THEN w.lo % 256
    ELSE IF n = 1 THEN w.lo \div 256
    ELSE IF n = 2 THEN w.hi % 256
    ELSE w.hi \div 256

\* Whether t is  0xFF000000 | (B << 16) | (G << 8) | R  for the channels
\* R = (c >> 16) & 0xFF, G = (c >> 8) & 0xFF, B = c & 0xFF of c.
IsOpaqueABGROf(t, c) ==
    /\ ByteOf(t, 3) = 255
    /\ ByteOf(t, 2) = ByteOf(c, 0)
    /\ ByteOf(t, 1) = ByteOf(c, 1)
    /\ ByteOf(t, 0) = ByteOf(c, 2)

\* C14: a call of DG_DrawFrame (v1) leaves, for every index i below
\* RESX * RESY, tex_data[i] = 0xFF000000 | (B << 16) | (G << 8) | R of
\* c = DG_ScreenBuffer[i], whatever the top byte of c and whatever the
\* texture held before.
C14_DrawFrameConvertsEveryPixel ==
    [][op' = "DG_DrawFrame" =>
         \A i \in 1..(DOOMGENERIC_RESX * DOOMGENERIC_RESY) :
             IsOpaqueABGROf(tex_data'[i], DG_ScreenBuffer[i])]_vars

\* A frame has been drawn over a texture that held something else; one of
\* its colours has a top byte that is not zero and red different from blue.
C14_Witness ==
    /\ pc = "draw"
    /\ op = "DG_DrawFrame"
    /\ \E i \in 1..(DOOMGENERIC_RESX * DOOMGENERIC_RESY) :
         /\ ByteOf(DG_ScreenBuffer[i], 3) # 0
         /\ ByteOf(DG_ScreenBuffer[i], 0) # ByteOf(DG_ScreenBuffer[i], 2)
         /\ IsOpaqueABGROf(tex_data[i], DG_ScreenBuffer[i])
         /\ tex_data[i] # tex_data[Len(tex_data)]

\* C15: a call of DG_DrawFrame (v2) writes every texture pixel (x, y) with
\* the source colour 0x00RRGGBB reordered to A8B8G8R8 with the alpha byte
\* forced to 255.
C15_DrawFrame2ReordersChannels ==
    [][op' = "DG_DrawFrame" =>
         \A y \in 0..(DOOMGENERIC_RESY - 1) : \A x \in 0..(DOOMGENERIC_RESX - 1) :
             IsOpaqueABGROf(tex_data'[y * TexStride + x + 1],
                            DG_ScreenBuffer[y * DOOMGENERIC_RESX + x + 1])]_vars

\* Every iteration of the main loop samples the controller and then runs
\* doomgeneric_Tick, and the loop has no way out.
MainLoopRunsOn ==
    /\ [](pc \in {"sample", "tick"})
    /\ [][/\ pc = "sample" => (pc' = "tick" /\ op' = "scan")
          /\ pc = "tick" => (pc' = "tick" \/ (pc' = "sample" /\ op' = "tick"))]_vars

\* C16: with a consumer that keeps calling DG_GetKey, the n-th event that
\* add_key accepted is eventually the n-th event DG_GetKey returns, for
\* every n; and the main loop (v1) never ends, sampling and then running
\* doomgeneric_Tick in every iteration.
C16_AcceptedEventuallyDelivered ==
    /\ MainLoopRunsOn
    /\ \A n \in 1..(MaxIter * Len(bmap)) :
         (Len(accepted) >= n) ~> (Len(delivered) >= n /\ delivered[n] = accepted[n])

\* The loop has gone round more than once, events were accepted in more
\* than one iteration, and all of them have been returned.
C16_Witness ==
    /\ iter >= 2
    /\ Len(accepted) > Len(calls)
    /\ calls # <<>>
    /\ delivered = accepted
    /\ op = "DG_GetKey"

\* The engine's view of key k: its last delivered event was a press.
EngineHolds(k) ==
    LET s == KeyEvents(delivered, k)
    IN  s # <<>> /\ s[Len(s)].pressed = 1

\* At least one button that bmap maps to key k is held in old_pad.
PadHolds(k) ==
    \E i \in 1..Len(bmap) : bmap[i].doom_key = k /\ bmap[i].vita_btn \in old_pad

\* C17: from a DG_Init with no button held, whenever the queue is drained
\* and every event add_key was called with has been delivered, the engine
\* holds a key exactly when the pad holds a button mapped to it.  (The main
\* loop makes at most MaxIter * 12 add_key calls here, fewer than the 63 the
\* queue takes, so no event is ever dropped.)
C17_DrainedViewAgreesWithPad ==
    (IsEmpty(Q) /\ delivered = accepted) =>
        \A k \in BmapKeys : EngineHolds(k) <=> PadHolds(k)

\* The add_key_event calls of the touch block among the calls cs.
FromTouch(cs) == SelectSeq(cs, LAMBDA c : c.src = "touch")

\* Slot i (from 0) of key_queue after the step.
SlotAfter(i) == key_queue2'[(i % MAX_KEY_QUEUE) + 1]

\* C18: in a DG_GetKey call (v2) whose touch sample is a rising edge
\* (reportNum > 0 while prev_touch = 0) with y < 200, current_weapon becomes
\* (current_weapon + 1) % 7 and the call enqueues the press of
\* weapon_keys[current_weapon] and then, in the next slot, its release; in
\* every other call the touch block enqueues nothing and current_weapon
\* stays, and no other step changes current_weapon.
C18_WeaponSwitchOnRisingEdgeOnly ==
    [][IF pc = "v2_sample" /\ op' = "sample"
       THEN LET t   == sample'.touch
                n   == Len(calls')
                key == weapon_keys[((current_weapon + 1) % 7) + 1]
            IN  IF t.reportNum > 0 /\ prev_touch = 0 /\ t.y < 200
                THEN /\ current_weapon' = (current_weapon + 1) % 7
                     /\ FromTouch(calls') = <<Call(key, 1, "touch"),
                                              Call(key, 0, "touch")>>
                     /\ calls'[n - 1] = Call(key, 1, "touch")
                     /\ calls'[n] = Call(key, 0, "touch")
                     /\ SlotAfter(key_queue_write + n - 2) = Event(key, 1)
                     /\ SlotAfter(key_queue_write + n - 1) = Event(key, 0)
                ELSE /\ FromTouch(calls') = <<>>
                     /\ current_weapon' = current_weapon
       ELSE current_weapon' = current_weapon]_vars

\* The seventh switch has taken current_weapon from 6 back to 0, after a
\* call in which the touch stayed held and one with a touch at y >= 200.
C18_Witness ==
    /\ op = "sample"
    /\ current_weapon = 0
    /\ FromTouch(calls) = <<Call(weapon_keys[1], 1, "touch"),
                            Call(weapon_keys[1], 0, "touch")>>
    /\ Len(FromTouch(accepted)) = 14

\* C19: key_queue_read and key_queue_write are always in
\* [0, MAX_KEY_QUEUE) and current_weapon is always in [0, 7).
C19_IndicesInBounds ==
    /\ key_queue_read \in 0..(MAX_KEY_QUEUE - 1)
    /\ key_queue_write \in 0..(MAX_KEY_QUEUE - 1)
    /\ current_weapon \in 0..(Len(weapon_keys) - 1)

\* Both cursors have gone once round the ring and current_weapon has gone
\* round weapon_keys.
C19_Witness ==
    /\ Len(accepted) >= MAX_KEY_QUEUE
    /\ Len(delivered) = MAX_KEY_QUEUE
    /\ key_queue_read = 0
    /\ key_queue_write < MAX_KEY_QUEUE
    /\ Len(FromTouch(accepted)) > 2 * Len(weapon_keys)

=============================================================================
